---- MODULE Spec2Model ----
(***************************************************************************)
(* Course lifecycle and enrollment handlers of the course router           *)
(* (src/routes/course/routes.js) over the Course collection.               *)
(*                                                                         *)
(* Spec      : every request handler runs to completion before the next    *)
(*             one starts (requests executed one at a time).               *)
(* SpecUpdateConc, SpecEnrollConc : the update (enroll) handler is split   *)
(*             at its awaits on the database, so the read of one request   *)
(*             and the write of another interleave.                        *)
(***************************************************************************)
EXTENDS Integers, Sequences, FiniteSets, TLC

\* ---------------------------------------------------------------- bounds
MaxCourses == 1       \* course documents that createCourse may insert
MaxInflight == 2      \* requests that may be between their read and write
MaxMaterials == 2     \* material entries stored at a time
MaxFiles == 2         \* files in the upload directory

\* ------------------------------------------------------------- constants
\* USERROLE_CODES (0, 1, 2 in the user model)
REGULAR == "REGULAR"
SUPERADMIN == "SUPERADMIN"
MANAGER == "MANAGER"

\* COURSESTATUS_CODES (0..3, see the comments 0->1 ... 3->0 of the table)
DRAFT == "DRAFT"
PUBLISHED == "PUBLISHED"
FINISHED == "FINISHED"
ARCHIVED == "ARCHIVED"
COURSESTATUS_CODES == {DRAFT, PUBLISHED, FINISHED, ARCHIVED}

\* MANAGERROLE_CODES
COORDINATOR == "COORDINATOR"
INSTRUCTOR == "INSTRUCTOR"

\* REGISTRATIONSTATUS_CODES
REQUESTED == "REQUESTED"
ACCEPTED == "ACCEPTED"
REJECTED == "REJECTED"
DISCONTINUED == "DISCONTINUED"

\* JavaScript undefined (a key missing from req.body) and a stored null
undefined == "undefined"
null == "null"
\* a status value of the payload that is no status code (4, "1", ...)
OTHERSTATUS == "OTHER"
\* value of new Date() at the time of the call
Now == "now"

\* a JavaScript value that may be an array: undefined, null, an array, or
\* something else (a string, a number, an object)
JsUndefined == [kind |-> "undefined"]
JsNull == [kind |-> "null"]
JsOther == [kind |-> "other"]
JsArray(list) == [kind |-> "array", items |-> list]

\* ----------------------------------------------------------- principals
\* req.id and req.role as checkJwt decodes them from the bearer token
Principals ==
  { [id |-> "a1", role |-> SUPERADMIN],
    [id |-> "m1", role |-> MANAGER],
    [id |-> "s1", role |-> REGULAR],
    [id |-> "s2", role |-> REGULAR] }

\* ids a request may name: those createCourse can issue and one that is
\* never issued
CourseIds == 1..(MaxCourses + 1)

\* ------------------------------------------------------------- payloads
Titles == {"t1"}

ManagerLists ==
  { << >>,
    << [managerId |-> "a1", role |-> COORDINATOR],
       [managerId |-> "m1", role |-> COORDINATOR] >> }

\* req.body of POST /course
\* values of req.body.tags: missing, not an array, an array of strings,
\* an array with an element that is not a string
TagValues ==
  { JsUndefined, JsOther,
    JsArray(<< [type |-> "string", value |-> "tag"] >>),
    JsArray(<< [type |-> "string", value |-> "tag"],
               [type |-> "number", value |-> "7"] >>) }

CreateBodies == [title : Titles, tags : TagValues]

\* req.body of PUT /course/:id
UpdateBodies ==
  [title : {"t2", undefined},
   material : {JsUndefined},
   status : COURSESTATUS_CODES \cup {OTHERSTATUS, undefined},
   managers : {JsUndefined} \cup {JsArray(L) : L \in ManagerLists}]

VARIABLES
  courses,        \* the Course collection: courses[id] is the document
  omitUndefined,  \* whether the ODM drops undefined keys of a $set
  inflight,       \* per request slot: the handler suspended at an await
  resp,           \* the last response sent
  files,          \* the names of the files in the upload directory
  users           \* the User collection: users[id] is the document

vars == <<courses, omitUndefined, inflight, resp, files, users>>

Idle == [pc |-> "idle"]

\* ------------------------------------------------------------ responses
\* status code of the response and the course document it carries
\* (NoData when it carries a message)
NoData == [kind |-> "message"]

Response(op, code, data) == [op |-> op, code |-> code, data |-> data]

\* ------------------------------------------------- Array.prototype ops
includes(list, x) == \E i \in 1..Len(list) : list[i] = x

\* splice(i) without the delete count: removes everything from i on
splice1_ToEnd(list, i) == SubSeq(list, 1, i - 1)

\* list.splice(i, 1)
splice1(list, i) == SubSeq(list, 1, i - 1) \o SubSeq(list, i + 1, Len(list))

\* -------------------------------------------- the transition table
\* The properties of the object literal, in source order.
validTransitionsLiteral ==
  << <<DRAFT, <<PUBLISHED>> >>,
     <<DRAFT, <<FINISHED>> >>,
     <<DRAFT, <<ARCHIVED>> >>,
     <<PUBLISHED, <<FINISHED>> >>,
     <<PUBLISHED, <<ARCHIVED>> >>,
     <<FINISHED, <<ARCHIVED>> >>,
     <<ARCHIVED, <<DRAFT>> >> >>

\* Evaluation of an object literal: a later property with the same key
\* overwrites the earlier one.
ObjectLiteral(props) ==
  LET keys == {props[i][1] : i \in 1..Len(props)}
      last(k) == CHOOSE i \in 1..Len(props) :
                   /\ props[i][1] = k
                   /\ \A j \in (i + 1)..Len(props) : props[j][1] # k
  IN [k \in keys |-> props[last(k)][2]]

validTransitions == ObjectLiteral(validTransitionsLiteral)

\* ---------------------------------------------------------- documents
\* Defaults the Course schema gives a new document: status DRAFT, no
\* image, and empty material and registrations arrays.
DefaultStatus == DRAFT
DefaultPic == JsNull

\* newCourseObject of POST /course, saved as a new document
\* the new document without the creator among its managers
newCourseObject_NoManagers(p, body) ==
  [title |-> body.title,
   tags |-> body.tags.items,
   status |-> DefaultStatus,
   pic |-> DefaultPic,
   material |-> JsArray(<< >>),
   createdBy |-> p.id,
   managers |-> << >>,
   registrations |-> << >>]

newCourseObject(p, body) ==
  [title |-> body.title,
   tags |-> body.tags.items,
   status |-> DefaultStatus,
   pic |-> DefaultPic,
   material |-> JsArray(<< >>),
   createdBy |-> p.id,
   managers |-> << [managerId |-> p.id, role |-> COORDINATOR] >>,
   registrations |-> << >>]

\* a registration that starts out accepted
newRegistration_Accepted(id) ==
  [user |-> id, state |-> ACCEPTED, requestedAt |-> Now]

\* newRegistration of POST /course/enroll/:id
newRegistration(id) ==
  [user |-> id, state |-> REQUESTED, requestedAt |-> Now]

\* ------------------------------------------------ PUT /course/:id
\* the check reduced to "status is a status code"
InvalidTransition_AnyStatus(existingStatus, status) ==
  status \notin COURSESTATUS_CODES

\* !validTransitions[existingCourse.status].includes(status)
InvalidTransition(existingStatus, status) ==
  ~includes(validTransitions[existingStatus], status)

\* updatedFields, with the managers key added only for a non-empty array
\* onto which the payload's managers are pushed
updatedFields(body) ==
  [title |-> body.title,
   material |-> body.material,
   status |-> body.status,
   managers |-> IF body.managers.kind = "array" /\ Len(body.managers.items) > 0
                THEN JsArray(<< >> \o body.managers.items)
                ELSE JsUndefined]

\* One key of a $set: an undefined value is dropped from the update or
\* stored as null, depending on the ODM.
SetKey(old, new, omit) ==
  IF new = undefined THEN (IF omit THEN old ELSE null) ELSE new

\* The same for a key holding an array.
SetArrayKey(old, new, omit) ==
  IF new.kind = "undefined" THEN (IF omit THEN old ELSE JsNull) ELSE new

\* an update that also empties the registrations
findByIdAndUpdate_ClearsRegistrations(doc, fields, omit) ==
  [doc EXCEPT
     !.title = SetKey(@, fields.title, omit),
     !.material = SetArrayKey(@, fields.material, omit),
     !.status = SetKey(@, fields.status, omit),
     !.managers = IF fields.managers.kind = "array"
                  THEN fields.managers.items ELSE @,
     !.registrations = << >>]

\* an update without $set: the document is replaced by the fields, and
\* the keys they do not name are lost
findByIdAndUpdate_Replace(doc, fields, omit) ==
  [doc EXCEPT
     !.title = SetKey(@, fields.title, omit),
     !.material = SetArrayKey(@, fields.material, omit),
     !.status = SetKey(@, fields.status, omit),
     !.managers = IF fields.managers.kind = "array"
                  THEN fields.managers.items ELSE @,
     !.createdBy = null]

\* Course.findByIdAndUpdate(courseId, { $set: fields }, { new: true })
findByIdAndUpdate(doc, fields, omit) ==
  [doc EXCEPT
     !.title = SetKey(@, fields.title, omit),
     !.material = SetArrayKey(@, fields.material, omit),
     !.status = SetKey(@, fields.status, omit),
     !.managers = IF fields.managers.kind = "array"
                  THEN fields.managers.items ELSE @]

\* ------------------------------------------------ validators
\* the keys a payload carries
CreateBodyKeys(body) ==
  (IF body.title # undefined THEN {"title"} ELSE {})
    \cup (IF body.tags.kind # "undefined" THEN {"tags"} ELSE {})

UpdateBodyKeys(body) ==
  (IF body.title # undefined THEN {"title"} ELSE {})
    \cup (IF body.material.kind # "undefined" THEN {"material"} ELSE {})
    \cup (IF body.status # undefined THEN {"status"} ELSE {})
    \cup (IF body.managers.kind # "undefined" THEN {"managers"} ELSE {})

\* createCourseValidator = Joi.object({ name, subtitle, description, tags,
\* status }): the first four are required, and a Joi object refuses keys
\* it does not name
createCourseValidatorKeys ==
  {"name", "subtitle", "description", "tags", "status"}
createCourseValidatorRequired == {"name", "subtitle", "description", "tags"}

\* createCourseValidator.validate(req.body).error is set, as far as the
\* keys of the payload decide it
createCourseValidatorError(keys) ==
  \/ ~(createCourseValidatorRequired \subseteq keys)
  \/ ~(keys \subseteq createCourseValidatorKeys)

\* ------------------------------------------------ handler results
\* What a handler does with the collection it finds: the status code and
\* document of its response, and the collection it leaves.
Result(code, data, stored) == [code |-> code, data |-> data, courses |-> stored]

\* ------------------------------------------------ POST /course
\* the tags check reduced to Array.isArray(tags)
TagsAreStrings_ArrayOnly(tags) == tags.kind = "array"

\* Array.isArray(tags) && tags.every((tag) => typeof tag === "string")
TagsAreStrings(tags) ==
  /\ tags.kind = "array"
  /\ \A i \in 1..Len(tags.items) : tags.items[i].type = "string"

\* the handler letting every role but REGULAR through
postCourse_RegularRefused(stored, p, body) ==
  IF p.role = REGULAR THEN Result(403, NoData, stored)
  ELSE IF ~TagsAreStrings(body.tags) THEN Result(400, NoData, stored)
  ELSE Result(200, newCourseObject(p, body),
              Append(stored, newCourseObject(p, body)))

postCourse(stored, p, body) ==
  IF p.role # SUPERADMIN THEN Result(403, NoData, stored)
  ELSE IF ~TagsAreStrings(body.tags) THEN Result(400, NoData, stored)
  ELSE Result(200, newCourseObject(p, body),
              Append(stored, newCourseObject(p, body)))

\* ------------------------------------------------ PUT /course/:id
\* from the transition check on, given the document findById returned
putCourseCheckAndSet(stored, omit, existingCourse, courseId, body) ==
  IF existingCourse.status \notin DOMAIN validTransitions
  THEN Result(500, NoData, stored)
  ELSE IF InvalidTransition(existingCourse.status, body.status)
  THEN Result(400, NoData, stored)
  ELSE LET updatedCourse ==
             findByIdAndUpdate(stored[courseId], updatedFields(body), omit)
       IN Result(200, updatedCourse,
                 [stored EXCEPT ![courseId] = updatedCourse])

\* the handler run as a whole: findById, the check, findByIdAndUpdate
\* the handler also letting the COORDINATOR managers of the course through
putCourse_CoordinatorAllowed(stored, omit, p, courseId, body) ==
  IF /\ p.role # SUPERADMIN
     /\ ~(/\ courseId \in DOMAIN stored
          /\ \E i \in 1..Len(stored[courseId].managers) :
               stored[courseId].managers[i]
                 = [managerId |-> p.id, role |-> COORDINATOR])
  THEN Result(403, NoData, stored)
  ELSE IF courseId \notin DOMAIN stored THEN Result(404, NoData, stored)
  ELSE putCourseCheckAndSet(stored, omit, stored[courseId], courseId, body)

\* the handler looking the course up before it looks at the role
putCourse_ExistenceFirst(stored, omit, p, courseId, body) ==
  IF courseId \notin DOMAIN stored THEN Result(404, NoData, stored)
  ELSE IF p.role # SUPERADMIN THEN Result(403, NoData, stored)
  ELSE putCourseCheckAndSet(stored, omit, stored[courseId], courseId, body)

putCourse(stored, omit, p, courseId, body) ==
  IF p.role # SUPERADMIN THEN Result(403, NoData, stored)
  ELSE IF courseId \notin DOMAIN stored THEN Result(404, NoData, stored)
  ELSE putCourseCheckAndSet(stored, omit, stored[courseId], courseId, body)

\* ------------------------------------------------ POST /course/enroll/:id
\* a $push that first looks for the user in the stored array
savePush_Conditional(stored, registration) ==
  IF \E i \in 1..Len(stored.registrations) :
       stored.registrations[i].user = registration.user
  THEN stored
  ELSE [stored EXCEPT !.registrations = Append(@, registration)]

\* a save that writes the material of the document back as empty
savePush_ClearsMaterial(stored, registration) ==
  [stored EXCEPT !.registrations = Append(@, registration),
                 !.material = JsArray(<< >>)]

\* course.registrations.push(r); course.save(): the ODM sends the pushed
\* element as a $push on the stored array
savePush(stored, registration) ==
  [stored EXCEPT !.registrations = Append(@, registration)]

\* course.registrations.push(r) on the document the handler holds
localPush(course, registration) ==
  [course EXCEPT !.registrations = Append(@, registration)]

\* a scan that compares the wrong field and so never matches
isEnrolled_NeverMatches(course, id) ==
  \E i \in 1..Len(course.registrations) :
    course.registrations[i].state = id

\* course.registrations.some(registration => registration.user == id)
isEnrolled(course, id) ==
  \E i \in 1..Len(course.registrations) :
    course.registrations[i].user = id

\* the scan and push open to PUBLISHED courses only
postEnrollScanAndPush_PublishedOnly(stored, course, courseId, id) ==
  IF isEnrolled(course, id) \/ course.status # PUBLISHED
  THEN Result(400, NoData, stored)
  ELSE Result(200, localPush(course, newRegistration(id)),
              [stored EXCEPT ![courseId] = savePush(@, newRegistration(id))])

\* from the isEnrolled scan on, given the document findById returned
postEnrollScanAndPush(stored, course, courseId, id) ==
  IF isEnrolled(course, id) THEN Result(400, NoData, stored)
  ELSE Result(200, localPush(course, newRegistration(id)),
              [stored EXCEPT ![courseId] = savePush(@, newRegistration(id))])

\* the handler with the return of its isEnrolled branch missing
postEnroll_NoReturn(stored, p, courseId) ==
  IF p.role # REGULAR THEN Result(403, NoData, stored)
  ELSE IF courseId \notin DOMAIN stored THEN Result(404, NoData, stored)
  ELSE Result(IF isEnrolled(stored[courseId], p.id) THEN 400 ELSE 200,
              NoData,
              [stored EXCEPT ![courseId] = savePush(@, newRegistration(p.id))])

\* the handler refusing only SUPERADMIN
postEnroll_AdminRefused(stored, p, courseId) ==
  IF p.role = SUPERADMIN THEN Result(403, NoData, stored)
  ELSE IF courseId \notin DOMAIN stored THEN Result(404, NoData, stored)
  ELSE postEnrollScanAndPush(stored, stored[courseId], courseId, p.id)

\* the handler run as a whole
postEnroll(stored, p, courseId) ==
  IF p.role # REGULAR THEN Result(403, NoData, stored)
  ELSE IF courseId \notin DOMAIN stored THEN Result(404, NoData, stored)
  ELSE postEnrollScanAndPush(stored, stored[courseId], courseId, p.id)

\* ------------------------------------------------ POST /course/unenroll/:id
\* course.registrations.findIndex(registration => registration.user ==
\* userId): the first matching index, 0 when there is none (-1 in JS)
enrollmentIndex(course, userId) ==
  LET matches == {i \in 1..Len(course.registrations) :
                    course.registrations[i].user = userId}
  IN IF matches = {} THEN 0
     ELSE CHOOSE i \in matches : \A j \in matches : i <= j

\* a soft delete: the registration is kept and marked DISCONTINUED
postUnenroll_SoftDelete(stored, p, courseId) ==
  IF courseId \notin DOMAIN stored THEN Result(404, NoData, stored)
  ELSE IF enrollmentIndex(stored[courseId], p.id) = 0
  THEN Result(400, NoData, stored)
  ELSE LET course == [stored[courseId] EXCEPT
                        !.registrations[enrollmentIndex(stored[courseId], p.id)]
                           .state = DISCONTINUED]
       IN Result(200, course, [stored EXCEPT ![courseId] = course])

postUnenroll(stored, p, courseId) ==
  IF courseId \notin DOMAIN stored THEN Result(404, NoData, stored)
  ELSE IF enrollmentIndex(stored[courseId], p.id) = 0
  THEN Result(400, NoData, stored)
  ELSE LET course == [stored[courseId] EXCEPT !.registrations =
                        splice1(@, enrollmentIndex(stored[courseId], p.id))]
       IN Result(200, course, [stored EXCEPT ![courseId] = course])

\* from the findIndex scan on, given the document findById returned:
\* splice marks the whole array modified, so save() sends it as a $set of
\* the array the handler holds; conflict is the VersionError of that save,
\* which the catch block answers
postUnenrollScanAndSave(stored, course, courseId, id, conflict) ==
  IF enrollmentIndex(course, id) = 0 THEN Result(400, NoData, stored)
  ELSE IF conflict THEN Result(500, NoData, stored)
  ELSE LET spliced == [course EXCEPT !.registrations =
                         splice1(@, enrollmentIndex(course, id))]
       IN Result(200, spliced,
                 [stored EXCEPT ![courseId].registrations =
                    spliced.registrations])

\* ------------------------------------------------ material of a course
\* the ObjectIds a material entry can get
MaterialIds == 1..MaxMaterials

\* the ids of the material entries stored now
UsedMaterialIds(stored) ==
  UNION { IF stored[c].material.kind = "array"
          THEN {stored[c].material.items[i]._id :
                  i \in 1..Len(stored[c].material.items)}
          ELSE {} : c \in DOMAIN stored }

\* the _id Mongoose gives a pushed subdocument: one not in use
ObjectId(stored) ==
  CHOOSE id \in MaterialIds \ UsedMaterialIds(stored) :
    \A other \in MaterialIds \ UsedMaterialIds(stored) : id <= other

\* req.body of the material requests
MaterialBodies == [url : {"u1", "u2"}, description : {"d1"}]

\* the principals sending material requests
MaterialPrincipals == {p \in Principals : p.id \in {"a1", "s1"}}

\* const newMaterial = { url, addedBy, description }
newMaterial(p, body) ==
  [url |-> body.url, addedBy |-> p.id, description |-> body.description]

\* the material id taken as a position in the list
materialIndex_ByPosition(course, materialId) ==
  IF materialId \in 1..Len(course.material.items) THEN materialId ELSE 0

\* course.material.findIndex((material) => material._id.equals(materialId)),
\* 0 standing for -1
materialIndex(course, materialId) ==
  LET matches == {i \in 1..Len(course.material.items) :
                    course.material.items[i]._id = materialId}
  IN IF matches = {} THEN 0
     ELSE CHOOSE i \in matches : \A j \in matches : i <= j

\* course.material of a findById result can be read: the course was found
\* and its material is an array; otherwise the read throws a TypeError
materialReadable(stored, courseId) ==
  /\ courseId \in DOMAIN stored
  /\ stored[courseId].material.kind = "array"

\* router.post("/:courseId/material")
postMaterial(stored, p, courseId, body) ==
  IF ~materialReadable(stored, courseId) THEN Result(500, NoData, stored)
  ELSE Result(201, newMaterial(p, body),
              [stored EXCEPT ![courseId].material.items =
                 Append(@, [_id |-> ObjectId(stored),
                            url |-> body.url,
                            addedBy |-> p.id,
                            description |-> body.description])])

\* router.put("/:courseId/material/:materialId")
putMaterial(stored, p, courseId, materialId, body) ==
  IF ~materialReadable(stored, courseId) THEN Result(500, NoData, stored)
  ELSE IF materialIndex(stored[courseId], materialId) = 0
  THEN Result(404, NoData, stored)
  ELSE LET i == materialIndex(stored[courseId], materialId)
           entry == [stored[courseId].material.items[i] EXCEPT
                       !.url = body.url,
                       !.addedBy = p.id,
                       !.description = body.description]
       IN Result(200, entry,
                 [stored EXCEPT ![courseId].material.items[i] = entry])

\* router.delete("/:courseId/material/:materialId")
deleteMaterial(stored, p, courseId, materialId) ==
  IF ~materialReadable(stored, courseId) THEN Result(500, NoData, stored)
  ELSE IF materialIndex(stored[courseId], materialId) = 0
  THEN Result(404, NoData, stored)
  ELSE Result(200, NoData,
              [stored EXCEPT ![courseId].material.items =
                 splice1(@, materialIndex(stored[courseId], materialId))])

AddMaterial(p, courseId, body) ==
  /\ Cardinality(UsedMaterialIds(courses)) < MaxMaterials
  /\ courses' = postMaterial(courses, p, courseId, body).courses
  /\ resp' = Response("addMaterial",
                      postMaterial(courses, p, courseId, body).code,
                      postMaterial(courses, p, courseId, body).data)
  /\ UNCHANGED <<omitUndefined, inflight, files, users>>

UpdateMaterial(p, courseId, materialId, body) ==
  /\ courses' = putMaterial(courses, p, courseId, materialId, body).courses
  /\ resp' = Response("updateMaterial",
                      putMaterial(courses, p, courseId, materialId, body).code,
                      putMaterial(courses, p, courseId, materialId, body).data)
  /\ UNCHANGED <<omitUndefined, inflight, files, users>>

DeleteMaterial(p, courseId, materialId) ==
  /\ courses' = deleteMaterial(courses, p, courseId, materialId).courses
  /\ resp' = Response("deleteMaterial",
                      deleteMaterial(courses, p, courseId, materialId).code,
                      deleteMaterial(courses, p, courseId, materialId).data)
  /\ UNCHANGED <<omitUndefined, inflight, files, users>>

\* ------------------------------------------------ POST /course/upload-image/:id
\* const maxSizeInBytes = 1024 * 1024
maxSizeInBytes == 1024 * 1024

\* minAspectRatio = 1 and maxAspectRatio = 16 / 9, as a fraction
minAspectRatio == 1
maxAspectRatioNum == 16
maxAspectRatioDen == 9

\* the request carries no file part
NoFile == [present |-> FALSE]

\* an uploaded file: whether image-size can decode it, its dimensions, and
\* whether its extension has an image mime type
UploadedFile(decodable, width, height, imageExt) ==
  [present |-> TRUE, written |-> TRUE, decodable |-> decodable,
   width |-> width, height |-> height, imageExt |-> imageExt]

\* a file part that the disk storage fails to write
UnwrittenFile == [present |-> TRUE, written |-> FALSE]

\* the file parts of the upload requests
FileParts ==
  { NoFile,
    UnwrittenFile,
    UploadedFile(TRUE, 640, 480, TRUE),
    UploadedFile(TRUE, 1600, 1000, TRUE),
    UploadedFile(TRUE, 480, 640, TRUE),
    UploadedFile(TRUE, 640, 480, FALSE),
    UploadedFile(FALSE, 0, 0, TRUE) }

\* uuidv4() + ext: a name no file in the directory has
FileNames == 1..MaxFiles
uniqueFilename(disk) ==
  CHOOSE n \in FileNames \ disk : \A other \in FileNames \ disk : n <= other

\* upload.single("image"): the file part, if any, is written to the disk
multerDisk(disk, file) ==
  IF file.present /\ file.written
  THEN disk \cup {uniqueFilename(disk)} ELSE disk

\* upload.single("image") passes an error to next(): the chain ends there
\* and the framework answers 500
multerFails(file) == file.present /\ ~file.written

\* const imageUrl = '/uploads/' + req.file.filename
imageUrl(filename) ==
  [kind |-> "url", dir |-> "/uploads/", filename |-> filename]

\* outcome of a middleware: the status it answers with (0: none), whether
\* it unlinks the uploaded file, whether it calls next()
Middleware(code, unlink, next) ==
  [code |-> code, unlink |-> unlink, next |-> next]

\* checkImage; sizeOf throws on a file it cannot decode, which the
\* framework answers with 500
checkImage(file) ==
  IF ~file.present THEN Middleware(400, FALSE, FALSE)
  ELSE IF ~file.decodable THEN Middleware(500, FALSE, FALSE)
  ELSE IF file.width * file.height > maxSizeInBytes
  THEN Middleware(400, TRUE, FALSE)
  ELSE IF \/ file.width < minAspectRatio * file.height
          \/ file.width * maxAspectRatioDen > maxAspectRatioNum * file.height
  THEN Middleware(400, TRUE, FALSE)
  ELSE IF ~file.imageExt THEN Middleware(400, TRUE, FALSE)
  ELSE Middleware(0, FALSE, TRUE)

\* outcome of the upload chain: first response, collection, directory
UploadResult(code, data, stored, disk) ==
  [code |-> code, data |-> data, courses |-> stored, files |-> disk]

\* Course.findOneAndUpdate({ _id: id }, { pic: imageUrl }, { new: true })
findOneAndUpdatePic(stored, id, url) ==
  IF id \in DOMAIN stored THEN [stored EXCEPT ![id].pic = url] ELSE stored

\* the route handler after upload.single and checkImage; the success
\* response is sent before the course is looked up
uploadImageHandler(stored, disk, p, id, filename) ==
  IF p.role # SUPERADMIN THEN UploadResult(403, NoData, stored, disk)
  ELSE UploadResult(200, imageUrl(filename),
                    findOneAndUpdatePic(stored, id, imageUrl(filename)), disk)

\* the chain with the handler running although the file was not written
postUploadImage_IgnoresWriteError(stored, disk, p, id, file) ==
  IF multerFails(file)
  THEN uploadImageHandler(stored, disk, p, id, uniqueFilename(disk))
  ELSE IF checkImage(file).next
  THEN uploadImageHandler(stored, multerDisk(disk, file), p, id,
                          uniqueFilename(disk))
  ELSE UploadResult(checkImage(file).code, NoData, stored,
                    IF checkImage(file).unlink THEN disk
                    ELSE multerDisk(disk, file))

\* router.post("/upload-image/:id", upload.single("image"), checkImage, ...)
postUploadImage(stored, disk, p, id, file) ==
  IF multerFails(file) THEN UploadResult(500, NoData, stored, disk)
  ELSE IF checkImage(file).next
  THEN uploadImageHandler(stored, multerDisk(disk, file), p, id,
                          uniqueFilename(disk))
  ELSE UploadResult(checkImage(file).code, NoData, stored,
                    IF checkImage(file).unlink THEN disk
                    ELSE multerDisk(disk, file))

UploadImage(p, id, file) ==
  /\ Cardinality(files) < MaxFiles
  /\ courses' = postUploadImage(courses, files, p, id, file).courses
  /\ files' = postUploadImage(courses, files, p, id, file).files
  /\ resp' = Response("uploadImage",
                      postUploadImage(courses, files, p, id, file).code,
                      postUploadImage(courses, files, p, id, file).data)
  /\ UNCHANGED <<omitUndefined, inflight, users>>

\* ------------------------------------------------ router.use(checkJwt)
\* tokens a client can put in the header: signed with SECRET_KEY for a
\* principal (expired or not), or not verifiable at all
SignedToken(p, expired) ==
  [kind |-> "signed", expired |-> expired, id |-> p.id, role |-> p.role]
ForgedToken == [kind |-> "forged"]

Tokens ==
  {SignedToken(p, expired) : p \in Principals, expired \in BOOLEAN}
    \cup {ForgedToken}

\* req.headers.authorization: missing, or a string, of which the code
\* reads startsWith('Bearer') and slice(7)
NoHeader == [present |-> FALSE]
AuthHeaders ==
  {NoHeader}
    \cup [present : {TRUE}, startsWithBearer : BOOLEAN, slice7 : Tokens]

\* req.id and req.role when the middleware has not set them
NoPrincipal == [id |-> undefined, role |-> undefined]

\* jwt.verify(token, process.env.SECRET_KEY) returns instead of throwing
verify(token) == token.kind = "signed" /\ ~token.expired

\* outcome of checkJwt: whether it has sent the 401, whether it calls
\* next(), and the principal it leaves in req
Checked(sent401, next, req) ==
  [sent401 |-> sent401, next |-> next, req |-> req]

\* checkJwt: the first 401 is sent without a return; authHeader.slice
\* then throws on a missing header, and a present header goes on to
\* jwt.verify
checkJwt(authHeader) ==
  IF ~authHeader.present THEN Checked(TRUE, FALSE, NoPrincipal)
  ELSE IF verify(authHeader.slice7)
  THEN Checked(~authHeader.startsWithBearer, TRUE,
               [id |-> authHeader.slice7.id, role |-> authHeader.slice7.role])
  ELSE Checked(TRUE, FALSE, NoPrincipal)

\* router.use(checkJwt) in front of a route handler: the client gets the
\* first response sent, and the handler runs if next() was called
routerUse(checked, handled, stored) ==
  IF ~checked.next THEN Result(401, NoData, stored)
  ELSE IF checked.sent401 THEN Result(401, NoData, handled.courses)
  ELSE handled

routePostCourse(stored, authHeader, body) ==
  routerUse(checkJwt(authHeader),
            postCourse(stored, checkJwt(authHeader).req, body), stored)

routePutCourse(stored, omit, authHeader, courseId, body) ==
  routerUse(checkJwt(authHeader),
            putCourse(stored, omit, checkJwt(authHeader).req, courseId, body),
            stored)

routePostEnroll(stored, authHeader, courseId) ==
  routerUse(checkJwt(authHeader),
            postEnroll(stored, checkJwt(authHeader).req, courseId), stored)

routePostUnenroll(stored, authHeader, courseId) ==
  routerUse(checkJwt(authHeader),
            postUnenroll(stored, checkJwt(authHeader).req, courseId), stored)

RouteCreateCourse(authHeader, body) ==
  /\ Len(routePostCourse(courses, authHeader, body).courses) <= MaxCourses
  /\ courses' = routePostCourse(courses, authHeader, body).courses
  /\ resp' = Response("create",
                      routePostCourse(courses, authHeader, body).code,
                      routePostCourse(courses, authHeader, body).data)
  /\ UNCHANGED <<omitUndefined, inflight, files, users>>

RouteUpdateCourse(authHeader, courseId, body) ==
  /\ courses' = routePutCourse(courses, omitUndefined, authHeader, courseId,
                               body).courses
  /\ resp' = Response("update",
                      routePutCourse(courses, omitUndefined, authHeader,
                                     courseId, body).code,
                      routePutCourse(courses, omitUndefined, authHeader,
                                     courseId, body).data)
  /\ UNCHANGED <<omitUndefined, inflight, files, users>>

RouteEnroll(authHeader, courseId) ==
  /\ courses' = routePostEnroll(courses, authHeader, courseId).courses
  /\ resp' = Response("enroll",
                      routePostEnroll(courses, authHeader, courseId).code,
                      routePostEnroll(courses, authHeader, courseId).data)
  /\ UNCHANGED <<omitUndefined, inflight, files, users>>

RouteUnenroll(authHeader, courseId) ==
  /\ courses' = routePostUnenroll(courses, authHeader, courseId).courses
  /\ resp' = Response("unenroll",
                      routePostUnenroll(courses, authHeader, courseId).code,
                      routePostUnenroll(courses, authHeader, courseId).data)
  /\ UNCHANGED <<omitUndefined, inflight, files, users>>

\* how many times checkJwt calls res.status(401).json for one request:
\* once in the header test, which does not return, and once in the catch
\* block around jwt.verify
checkJwtSends(authHeader) ==
  (IF ~authHeader.present \/ ~authHeader.startsWithBearer THEN 1 ELSE 0)
    + (IF authHeader.present /\ ~verify(authHeader.slice7) THEN 1 ELSE 0)

\* calls of res.json for one request to a course route behind
\* router.use(checkJwt): those of checkJwt and, when it calls next(), the
\* one res.json that every branch of the course handlers returns
routeSends(authHeader) ==
  checkJwtSends(authHeader) + (IF checkJwt(authHeader).next THEN 1 ELSE 0)

\* calls of res.json by the upload-image handler for one request: the
\* success response precedes the lookup, whose failure sends the 404
uploadImageHandlerSends(stored, p, id) ==
  IF p.role # SUPERADMIN THEN 1
  ELSE IF id \in DOMAIN stored THEN 1
  ELSE 2

\* ------------------------------------------------ the GET routes
\* the numbers behind COURSESTATUS_CODES (0->1, 1->2, ... beside the table)
StatusCodeOf ==
  [s \in COURSESTATUS_CODES |->
     CASE s = DRAFT -> 0
       [] s = PUBLISHED -> 1
       [] s = FINISHED -> 2
       [] s = ARCHIVED -> 3]

\* the data of a response that carries a list of documents
ListData(items) == [kind |-> "list", items |-> items]

\* the _id of every stored document, in stored order
AllIds(stored) == [c \in 1..Len(stored) |-> c]

\* a find without the status filter
PublishedIds_All(stored) == AllIds(stored)

\* Course.find({ status: 1 })
PublishedIds(stored) ==
  SelectSeq(AllIds(stored), LAMBDA c : StatusCodeOf[stored[c].status] = 1)

\* a match on the first registration of each course only
EnrolledIds_FirstOnly(stored, userId) ==
  SelectSeq(AllIds(stored),
            LAMBDA c : /\ Len(stored[c].registrations) >= 1
                       /\ stored[c].registrations[1].user = userId)

\* Course.find({ "registrations.user": userId })
EnrolledIds(stored, userId) ==
  SelectSeq(AllIds(stored),
            LAMBDA c : \E i \in 1..Len(stored[c].registrations) :
                         stored[c].registrations[i].user = userId)

\* the numbers behind REGISTRATIONSTATUS_CODES
StateCodeOf ==
  [s \in {REQUESTED, ACCEPTED, REJECTED, DISCONTINUED} |->
     CASE s = REQUESTED -> 0
       [] s = ACCEPTED -> 1
       [] s = REJECTED -> 2
       [] s = DISCONTINUED -> 3]

\* a match on any registration, whatever its state
PendingIds_AnyRegistration(stored) ==
  SelectSeq(AllIds(stored), LAMBDA c : Len(stored[c].registrations) >= 1)

\* Course.find({ "registrations.state": 0 })
PendingIds(stored) ==
  SelectSeq(AllIds(stored),
            LAMBDA c : \E i \in 1..Len(stored[c].registrations) :
                         StateCodeOf[stored[c].registrations[i].state] = 0)

\* a document as Course.find() returns it to a SUPERADMIN
fullDocument(stored, c) == [_id |-> c] @@ stored[c]

\* a document after .select("-status -registrations.state
\* -registrations.requestedAt -registrations._id -managers -material -rating
\* -tags -creationDate -__v"); the populate of "registrations" with
\* match { state: 1 } finds no ref on the embedded array and leaves it alone
selectedDocument(stored, c) ==
  [_id |-> c,
   title |-> stored[c].title,
   pic |-> stored[c].pic,
   createdBy |-> stored[c].createdBy,
   registrations |-> [i \in 1..Len(stored[c].registrations) |->
                        [user |-> stored[c].registrations[i].user]]]

\* a document under the projection { title: 1, subtitle: 1, description: 1,
\* rating: 1, "registrations.user": 1, "registrations.state": 1 }
enrolledDocument(stored, c) ==
  [_id |-> c,
   title |-> stored[c].title,
   registrations |-> [i \in 1..Len(stored[c].registrations) |->
                        [user |-> stored[c].registrations[i].user,
                         state |-> stored[c].registrations[i].state]]]

\* router.get("/all")
getAll(stored, p) ==
  IF p.id = undefined THEN Result(400, NoData, stored)
  ELSE IF p.role = SUPERADMIN
  THEN Result(200,
              ListData([i \in 1..Len(AllIds(stored)) |->
                          fullDocument(stored, AllIds(stored)[i])]),
              stored)
  ELSE IF p.role = REGULAR
  THEN Result(200,
              ListData([i \in 1..Len(PublishedIds(stored)) |->
                          selectedDocument(stored, PublishedIds(stored)[i])]),
              stored)
  ELSE Result(403, NoData, stored)

\* router.get("/admin/pending")
getPending(stored, p) ==
  IF p.role # SUPERADMIN THEN Result(403, NoData, stored)
  ELSE IF Len(PendingIds(stored)) = 0 THEN Result(204, NoData, stored)
  ELSE Result(200,
              ListData([i \in 1..Len(PendingIds(stored)) |->
                          fullDocument(stored, PendingIds(stored)[i])]),
              stored)

\* router.get("/:id")
getCourse(stored, p, courseId) ==
  IF courseId \notin DOMAIN stored THEN Result(404, NoData, stored)
  ELSE Result(200, stored[courseId], stored)

\* router.get("/student/enrolled-courses")
getEnrolledCourses(stored, p) ==
  IF p.id = undefined THEN Result(400, NoData, stored)
  ELSE Result(200,
              ListData([i \in 1..Len(EnrolledIds(stored, p.id)) |->
                          enrolledDocument(stored,
                                           EnrolledIds(stored, p.id)[i])]),
              stored)

GetAll(p) ==
  /\ resp' = Response("getAll", getAll(courses, p).code,
                      getAll(courses, p).data)
  /\ UNCHANGED <<courses, omitUndefined, inflight, files, users>>

GetPending(p) ==
  /\ resp' = Response("getPending", getPending(courses, p).code,
                      getPending(courses, p).data)
  /\ UNCHANGED <<courses, omitUndefined, inflight, files, users>>

GetCourse(p, courseId) ==
  /\ resp' = Response("getCourse", getCourse(courses, p, courseId).code,
                      getCourse(courses, p, courseId).data)
  /\ UNCHANGED <<courses, omitUndefined, inflight, files, users>>

GetEnrolledCourses(p) ==
  /\ resp' = Response("getEnrolledCourses",
                      getEnrolledCourses(courses, p).code,
                      getEnrolledCourses(courses, p).data)
  /\ UNCHANGED <<courses, omitUndefined, inflight, files, users>>

\* ------------------------------------------------ the /user routes
\* USERSTATUS_CODES
TEMPORARY == "TEMPORARY"
PERMANENT == "PERMANENT"

\* the _id of the registered users
UserIds == {p.id : p \in Principals}

\* the fields of a User document that the profile routes can reach; role
\* is the one the tokens of the user carry, status has the schema default
newUser(p) ==
  [role |-> p.role, status |-> TEMPORARY, about |-> undefined,
   awards |-> << >>, experience |-> << >>]

InitialUsers ==
  [id \in UserIds |-> newUser(CHOOSE p \in Principals : p.id = id)]

\* outcome of a /user handler: status code and the collection after it
UserResult(code, stored) == [code |-> code, users |-> stored]

\* the _id of the elements of the awards arrays
AwardIds == {1}

\* req.body of PUT /user/details: any JSON object; the keys that are
\* paths of userSchema are kept by the update
DetailBodies ==
  [about : {undefined, "about"},
   awards : {JsUndefined, JsArray(<< >>)}
              \cup {JsArray(<<[_id |-> id, name |-> "award"]>>) :
                      id \in AwardIds},
   role : {undefined, SUPERADMIN},
   status : {undefined, PERMANENT}]

\* User.findByIdAndUpdate(userId, updateData): a $set of every key of
\* the body that is a path of the schema
updateWith(user, updateData) ==
  [about |-> IF updateData.about = undefined THEN user.about
             ELSE updateData.about,
   awards |-> IF updateData.awards = JsUndefined THEN user.awards
              ELSE updateData.awards.items,
   role |-> IF updateData.role = undefined THEN user.role
            ELSE updateData.role,
   status |-> IF updateData.status = undefined THEN user.status
              ELSE updateData.status,
   experience |-> user.experience]

\* router.put("/details"): updateUserValidator has no key role or status
\* and would refuse them, but the result of validate is not read
putDetails(stored, p, body) ==
  IF p.id \notin DOMAIN stored THEN UserResult(404, stored)
  ELSE UserResult(200, [stored EXCEPT ![p.id] = updateWith(@, body)])

\* req.body of PUT /user/awards/:id
AwardBodies == [name : {"award", "aw"}]

\* awardsSchema: name: Joi.string().min(3).max(100), on the String
\* length of the names of the request bodies
awardsSchemaError(body) ==
  LET length == IF body.name = "award" THEN 5 ELSE 2
  IN length < 3 \/ length > 100

\* router.put("/awards/:id"): a $set through arrayFilters on the awards
\* of the user req.id whose _id is the :id of the path
putAwards(stored, p, awardId, body) ==
  IF awardsSchemaError(body) THEN UserResult(400, stored)
  ELSE IF p.id \notin DOMAIN stored THEN UserResult(404, stored)
  ELSE UserResult(200,
         [stored EXCEPT ![p.id].awards =
            [i \in 1..Len(@) |->
               IF @[i]._id = awardId THEN [@[i] EXCEPT !.name = body.name]
               ELSE @[i]]])

\* req.body of PUT /user/update-experience/:id
ExperienceBodies == [position : {undefined, "position"}, company : {"company"}]

\* experienceValidationSchema: position: Joi.string().required()
experienceValidationSchemaError(body) == body.position = undefined

\* router.put('/update-experience/:id'): the :id of the path is the _id
\* of the user to update; the object is cast to an array of one element
putUpdateExperience(stored, p, userId, experienceData) ==
  IF experienceValidationSchemaError(experienceData)
  THEN UserResult(400, stored)
  ELSE IF userId \notin DOMAIN stored THEN UserResult(404, stored)
  ELSE UserResult(200,
                  [stored EXCEPT ![userId].experience = <<experienceData>>])

UpdateDetails(p, body) ==
  /\ users' = putDetails(users, p, body).users
  /\ resp' = Response("details", putDetails(users, p, body).code, NoData)
  /\ UNCHANGED <<courses, omitUndefined, inflight, files>>

UpdateAward(p, awardId, body) ==
  /\ users' = putAwards(users, p, awardId, body).users
  /\ resp' = Response("awards", putAwards(users, p, awardId, body).code,
                      NoData)
  /\ UNCHANGED <<courses, omitUndefined, inflight, files>>

UpdateExperience(p, userId, body) ==
  /\ users' = putUpdateExperience(users, p, userId, body).users
  /\ resp' = Response("updateExperience",
                      putUpdateExperience(users, p, userId, body).code,
                      NoData)
  /\ UNCHANGED <<courses, omitUndefined, inflight, files>>

\* ------------------------------------------------ one request at a time
\* Each handler runs to completion: its result becomes the collection and
\* the response.

\* The update handler does not look at the body before its role and
\* existence checks have passed: one body stands for all of them there.
BodiesRead(p, courseId, stored) ==
  IF p.role = SUPERADMIN /\ courseId \in DOMAIN stored
  THEN UpdateBodies
  ELSE {[title |-> undefined, material |-> JsUndefined,
         status |-> undefined, managers |-> JsUndefined]}

CreateCourse(p, body) ==
  /\ Len(postCourse(courses, p, body).courses) <= MaxCourses
  /\ courses' = postCourse(courses, p, body).courses
  /\ resp' = Response("create", postCourse(courses, p, body).code,
                      postCourse(courses, p, body).data)
  /\ UNCHANGED <<omitUndefined, inflight, files, users>>

UpdateCourse(p, courseId, body) ==
  /\ body \in BodiesRead(p, courseId, courses)
  /\ courses' = putCourse(courses, omitUndefined, p, courseId, body).courses
  /\ resp' = Response("update",
                      putCourse(courses, omitUndefined, p, courseId, body).code,
                      putCourse(courses, omitUndefined, p, courseId, body).data)
  /\ UNCHANGED <<omitUndefined, inflight, files, users>>

Enroll(p, courseId) ==
  /\ courses' = postEnroll(courses, p, courseId).courses
  /\ resp' = Response("enroll", postEnroll(courses, p, courseId).code,
                      postEnroll(courses, p, courseId).data)
  /\ UNCHANGED <<omitUndefined, inflight, files, users>>

Unenroll(p, courseId) ==
  /\ courses' = postUnenroll(courses, p, courseId).courses
  /\ resp' = Response("unenroll", postUnenroll(courses, p, courseId).code,
                      postUnenroll(courses, p, courseId).data)
  /\ UNCHANGED <<omitUndefined, inflight, files, users>>

\* ------------------------------------------------ interleaved handlers
\* PUT /course/:id up to the completion of its findById
UpdateStart(i, p, courseId, body) ==
  /\ inflight[i] = Idle
  /\ body \in BodiesRead(p, courseId, courses)
  /\ IF p.role # SUPERADMIN
     THEN /\ resp' = Response("update", 403, NoData)
          /\ UNCHANGED inflight
     ELSE IF courseId \notin DOMAIN courses
     THEN /\ resp' = Response("update", 404, NoData)
          /\ UNCHANGED inflight
     ELSE /\ inflight' = [inflight EXCEPT ![i] =
                            [pc |-> "update", courseId |-> courseId,
                             body |-> body,
                             existingCourse |-> courses[courseId]]]
          /\ UNCHANGED resp
  /\ UNCHANGED <<courses, omitUndefined, files, users>>

\* PUT /course/:id from the transition check to the response
UpdateFinish(i) ==
  /\ inflight[i].pc = "update"
  /\ LET r == inflight[i]
         result == putCourseCheckAndSet(courses, omitUndefined,
                                        r.existingCourse, r.courseId, r.body)
     IN /\ courses' = result.courses
        /\ resp' = Response("update", result.code, result.data)
  /\ inflight' = [inflight EXCEPT ![i] = Idle]
  /\ UNCHANGED <<omitUndefined, files, users>>

\* POST /course/enroll/:id up to the completion of its findById
EnrollStart(i, p, courseId) ==
  /\ inflight[i] = Idle
  /\ IF p.role # REGULAR
     THEN /\ resp' = Response("enroll", 403, NoData)
          /\ UNCHANGED inflight
     ELSE IF courseId \notin DOMAIN courses
     THEN /\ resp' = Response("enroll", 404, NoData)
          /\ UNCHANGED inflight
     ELSE /\ inflight' = [inflight EXCEPT ![i] =
                            [pc |-> "enroll", courseId |-> courseId,
                             id |-> p.id, course |-> courses[courseId]]]
          /\ UNCHANGED resp
  /\ UNCHANGED <<courses, omitUndefined, files, users>>

\* a save of the registrations of a course increments its __v: the
\* unenrolls in flight that read the course earlier hold the old value
versionMoved(slots, courseId) ==
  [j \in DOMAIN slots |->
     IF slots[j].pc = "unenroll" /\ slots[j].courseId = courseId
     THEN [slots[j] EXCEPT !.moved = TRUE]
     ELSE slots[j]]

\* POST /course/enroll/:id from the isEnrolled scan to the response
EnrollFinish(i) ==
  /\ inflight[i].pc = "enroll"
  /\ LET r == inflight[i]
         result == postEnrollScanAndPush(courses, r.course, r.courseId, r.id)
     IN /\ courses' = result.courses
        /\ resp' = Response("enroll", result.code, result.data)
        /\ inflight' = [(IF result.code = 200
                         THEN versionMoved(inflight, r.courseId)
                         ELSE inflight) EXCEPT ![i] = Idle]
  /\ UNCHANGED <<omitUndefined, files, users>>

\* POST /course/unenroll/:id up to the result of Course.findById
UnenrollStart(i, p, courseId) ==
  /\ inflight[i] = Idle
  /\ IF courseId \notin DOMAIN courses
     THEN /\ resp' = Response("unenroll", 404, NoData)
          /\ UNCHANGED inflight
     ELSE /\ inflight' = [inflight EXCEPT ![i] =
                            [pc |-> "unenroll", courseId |-> courseId,
                             id |-> p.id, course |-> courses[courseId],
                             moved |-> FALSE]]
          /\ UNCHANGED resp
  /\ UNCHANGED <<courses, omitUndefined, files, users>>

\* POST /course/unenroll/:id from the findIndex scan to the response;
\* versioned is whether the Course schema keeps the version key, so that
\* the save of a document read before another save fails
UnenrollFinish(i, versioned) ==
  /\ inflight[i].pc = "unenroll"
  /\ LET r == inflight[i]
         result == postUnenrollScanAndSave(courses, r.course, r.courseId,
                                           r.id, versioned /\ r.moved)
     IN /\ courses' = result.courses
        /\ resp' = Response("unenroll", result.code, result.data)
        /\ inflight' = [(IF result.code = 200
                         THEN versionMoved(inflight, r.courseId)
                         ELSE inflight) EXCEPT ![i] = Idle]
  /\ UNCHANGED <<omitUndefined, files, users>>

\* ------------------------------------------------ specifications
Init ==
  /\ courses = << >>
  /\ omitUndefined \in BOOLEAN
  /\ inflight = [i \in 1..MaxInflight |-> Idle]
  /\ resp = Response("none", 0, NoData)
  /\ files = {}
  /\ users = InitialUsers

Next ==
  \/ \E p \in Principals, body \in CreateBodies : CreateCourse(p, body)
  \/ \E p \in Principals, c \in CourseIds, body \in UpdateBodies :
       UpdateCourse(p, c, body)
  \/ \E p \in Principals, c \in CourseIds : Enroll(p, c)
  \/ \E p \in Principals, c \in CourseIds : Unenroll(p, c)

Spec == Init /\ [][Next]_vars

Slots == 1..MaxInflight

\* bodies of the interleaved updates: a status (or none) and nothing else
StatusBodies ==
  {body \in UpdateBodies :
     body.title = undefined /\ body.managers = JsUndefined}

NextUpdateConc ==
  \/ \E p \in Principals, body \in CreateBodies : CreateCourse(p, body)
  \/ \E i \in Slots, p \in Principals, c \in CourseIds,
        body \in StatusBodies : UpdateStart(i, p, c, body)
  \/ \E i \in Slots : UpdateFinish(i)

SpecUpdateConc == Init /\ [][NextUpdateConc]_vars

\* principals of the interleaved enrolls: one student, whose requests
\* race with each other, and one principal the role check turns away
EnrollingPrincipals == {p \in Principals : p.id \in {"s1", "a1"}}

NextEnrollConc ==
  \/ \E p \in Principals, body \in CreateBodies : CreateCourse(p, body)
  \/ \E i \in Slots, p \in EnrollingPrincipals, c \in CourseIds :
       EnrollStart(i, p, c)
  \/ \E i \in Slots : EnrollFinish(i)

SpecEnrollConc == Init /\ [][NextEnrollConc]_vars

\* Enrolls and unenrolls of the REGULAR principals, interleaved at the
\* awaits of their handlers, on the courses a SUPERADMIN created.
Students == {p \in Principals : p.role = REGULAR}

\* the principal whose unenroll races with the enrolls
UnenrollingPrincipals == {p \in Students : p.id = "s1"}

\* the bodies that pass the tags check
AcceptedBodies == {body \in CreateBodies : TagsAreStrings(body.tags)}

NextRegistrationConc ==
  \/ \E p \in Principals \ Students, body \in AcceptedBodies :
       CreateCourse(p, body)
  \/ \E i \in Slots, p \in Students, c \in CourseIds :
       EnrollStart(i, p, c)
  \/ \E i \in Slots : EnrollFinish(i)
  \/ \E i \in Slots, p \in UnenrollingPrincipals, c \in CourseIds :
       UnenrollStart(i, p, c)
  \/ \E i \in Slots, versioned \in BOOLEAN : UnenrollFinish(i, versioned)

SpecRegistrationConc == Init /\ [][NextRegistrationConc]_vars

\* Material requests, one at a time, on the courses a SUPERADMIN created.
NextMaterial ==
  \/ \E p \in Principals, body \in CreateBodies : CreateCourse(p, body)
  \/ \E p \in MaterialPrincipals, c \in CourseIds, body \in MaterialBodies :
       AddMaterial(p, c, body)
  \/ \E p \in MaterialPrincipals, c \in CourseIds, m \in MaterialIds,
        body \in MaterialBodies :
       UpdateMaterial(p, c, m, body)
  \/ \E p \in MaterialPrincipals, c \in CourseIds, m \in MaterialIds :
       DeleteMaterial(p, c, m)

SpecMaterial == Init /\ [][NextMaterial]_vars

\* Image uploads, one at a time, among creations and status updates.
NextImage ==
  \/ \E p \in Principals, body \in CreateBodies : CreateCourse(p, body)
  \/ \E p \in Principals, c \in CourseIds, body \in StatusBodies :
       UpdateCourse(p, c, body)
  \/ \E p \in Principals, c \in CourseIds, file \in FileParts :
       UploadImage(p, c, file)

SpecImage == Init /\ [][NextImage]_vars

\* Requests with their Authorization header, through checkJwt, one at a
\* time.
NextAuth ==
  \/ \E h \in AuthHeaders, body \in CreateBodies : RouteCreateCourse(h, body)
  \/ \E h \in AuthHeaders, c \in CourseIds, body \in StatusBodies :
       RouteUpdateCourse(h, c, body)
  \/ \E h \in AuthHeaders, c \in CourseIds : RouteEnroll(h, c)
  \/ \E h \in AuthHeaders, c \in CourseIds : RouteUnenroll(h, c)

SpecAuth == Init /\ [][NextAuth]_vars

\* The GET routes are functions of the collection and the principal: they
\* are applied to every collection of the bounded shape the schema admits,
\* with every status, and to what enroll and unenroll make of it.
SeedRegistrations ==
  { << >>,
    << newRegistration("s1") >>,
    << newRegistration("s2"), newRegistration("s1") >>,
    << [newRegistration("s2") EXCEPT !.state = ACCEPTED] >> }

SeedCourses ==
  { [newCourseObject([id |-> "a1", role |-> SUPERADMIN],
                     [title |-> "t1", tags |-> JsArray(<< >>)])
       EXCEPT !.status = s, !.registrations = r] :
      s \in COURSESTATUS_CODES, r \in SeedRegistrations }

SeedCollections == UNION {[1..n -> SeedCourses] : n \in 0..MaxCourses}

InitList ==
  /\ courses \in SeedCollections
  /\ omitUndefined \in BOOLEAN
  /\ inflight = [i \in 1..MaxInflight |-> Idle]
  /\ resp = Response("none", 0, NoData)
  /\ files = {}
  /\ users = InitialUsers

NextList ==
  \/ \E p \in Principals : GetAll(p)
  \/ \E p \in Principals : GetPending(p)
  \/ \E p \in Principals, c \in CourseIds : GetCourse(p, c)
  \/ \E p \in Principals : GetEnrolledCourses(p)
  \/ \E p \in Principals, c \in CourseIds : Enroll(p, c)
  \/ \E p \in Principals, c \in CourseIds : Unenroll(p, c)

SpecList == InitList /\ [][NextList]_vars

\* Material requests of one REGULAR user among the enrolls and unenrolls
\* of that user, one at a time, on the courses a SUPERADMIN created.
NextFields ==
  \/ \E p \in Principals \ Students, body \in AcceptedBodies :
       CreateCourse(p, body)
  \/ \E p \in UnenrollingPrincipals, c \in CourseIds, body \in MaterialBodies :
       AddMaterial(p, c, body)
  \/ \E p \in UnenrollingPrincipals, c \in CourseIds, m \in MaterialIds,
        body \in MaterialBodies : UpdateMaterial(p, c, m, body)
  \/ \E p \in UnenrollingPrincipals, c \in CourseIds, m \in MaterialIds :
       DeleteMaterial(p, c, m)
  \/ \E p \in UnenrollingPrincipals, c \in CourseIds : Enroll(p, c)
  \/ \E p \in UnenrollingPrincipals, c \in CourseIds : Unenroll(p, c)

SpecFields == Init /\ [][NextFields]_vars

\* Profile requests of the REGULAR users, one at a time.
NextUser ==
  \/ \E p \in Students, body \in DetailBodies :
       UpdateDetails(p, body)
  \/ \E p \in Students, id \in AwardIds, body \in AwardBodies :
       UpdateAward(p, id, body)
  \/ \E p \in Students, id \in UserIds,
        body \in ExperienceBodies : UpdateExperience(p, id, body)

SpecUser == Init /\ [][NextUser]_vars

\* ======================================================================
\* Properties
\* ======================================================================

\* The transition table as documented: current status -> allowed next.
AllowedNext ==
  [s \in COURSESTATUS_CODES |->
     CASE s = DRAFT -> {PUBLISHED, FINISHED, ARCHIVED}
       [] s = PUBLISHED -> {FINISHED, ARCHIVED}
       [] s = FINISHED -> {ARCHIVED}
       [] s = ARCHIVED -> {DRAFT}]

Admins == {p \in Principals : p.role = SUPERADMIN}
\* the result of PUT /course/:id with this body, sent now
Put(p, c, body) == putCourse(courses, omitUndefined, p, c, body)

\* number of registrations of the user in a list of registrations
RegistrationsOf(registrations, id) ==
  Cardinality({i \in 1..Len(registrations) : registrations[i].user = id})

\* C1: with requests executed one at a time, a course's status changes
\* only along the documented transition table, and in every reachable
\* state a SUPERADMIN update that requests a status outside the allowed set
\* of the current status (a self-transition, PUBLISHED->DRAFT, ...) is
\* answered 400 and leaves the status as it was.
C1_StatusAlongTable ==
  /\ [][ \A c \in DOMAIN courses :
           courses'[c].status # courses[c].status
             => courses'[c].status \in AllowedNext[courses[c].status] ]_vars
  /\ [](\A p \in Admins, c \in DOMAIN courses, body \in UpdateBodies :
          ( /\ body.status # undefined
            /\ body.status \notin AllowedNext[courses[c].status] )
            => /\ Put(p, c, body).code = 400
               /\ Put(p, c, body).courses[c].status = courses[c].status)

\* C1 witness: a status has changed (DRAFT -> ARCHIVED) and a later update
\* was refused with 400.
C1_Witness ==
  /\ resp = Response("update", 400, NoData)
  /\ \E c \in DOMAIN courses : courses[c].status = ARCHIVED

\* C2: in every reachable state, a SUPERADMIN update with status x on a
\* stored course succeeds and stores x if and only if x is in the
\* documented allowed set of the course's current status.
C2_SucceedsIffAllowed ==
  \A p \in Admins, c \in DOMAIN courses, body \in UpdateBodies :
    body.status \in COURSESTATUS_CODES
      => ( ( /\ Put(p, c, body).code = 200
             /\ Put(p, c, body).courses[c].status = body.status )
           <=> body.status \in AllowedNext[courses[c].status] )

\* C3: the lifecycle DRAFT -> PUBLISHED -> FINISHED -> ARCHIVED -> DRAFT
\* can be walked by successful SUPERADMIN updates (each step, requested in
\* the state it starts from, succeeds and stores the requested status),
\* and on a PUBLISHED course an update to DRAFT is answered 400 and leaves
\* it PUBLISHED.
LifecycleSteps ==
  { <<DRAFT, PUBLISHED>>, <<PUBLISHED, FINISHED>>,
    <<FINISHED, ARCHIVED>>, <<ARCHIVED, DRAFT>> }

C3_LifecycleWalk ==
  \A p \in Admins, c \in DOMAIN courses, body \in UpdateBodies :
    /\ <<courses[c].status, body.status>> \in LifecycleSteps
         => /\ Put(p, c, body).code = 200
            /\ Put(p, c, body).courses[c].status = body.status
    /\ (courses[c].status = PUBLISHED /\ body.status = DRAFT)
         => /\ Put(p, c, body).code = 400
            /\ Put(p, c, body).courses[c].status = PUBLISHED

\* C4: in every reachable state, a SUPERADMIN update of a stored course
\* whose payload has no status is not answered 400; it stores the title it
\* carries and leaves the status as it was.
C4_NoStatusNoCheck ==
  \A p \in Admins, c \in DOMAIN courses, body \in UpdateBodies :
    body.status = undefined
      => /\ Put(p, c, body).code # 400
         /\ Put(p, c, body).courses[c].status = courses[c].status
         /\ body.title # undefined
              => Put(p, c, body).courses[c].title = body.title

\* C5: when updates of one course interleave, every status that an update
\* stores is an allowed next status of the status stored just before it.
C5_PersistedStatusLegal ==
  [][ \A i \in Slots :
        ( /\ inflight[i].pc = "update"
          /\ inflight'[i] = Idle
          /\ resp'.code = 200 )
          => courses'[inflight[i].courseId].status
               \in AllowedNext[courses[inflight[i].courseId].status] ]_vars

\* C6: in every reachable state, a successful SUPERADMIN update with a
\* non-empty managers list M on a course whose managers are L stores L
\* followed by M.
C6_ManagersAppended ==
  \A p \in Admins, c \in DOMAIN courses, body \in UpdateBodies :
    ( /\ body.managers.kind = "array"
      /\ Len(body.managers.items) > 0
      /\ Put(p, c, body).code = 200 )
      => Put(p, c, body).courses[c].managers
           = courses[c].managers \o body.managers.items

\* C7: with requests executed one at a time, every course holds at most
\* one registration per user.
C7_AtMostOneRegistration ==
  \A c \in DOMAIN courses, p \in Principals :
    RegistrationsOf(courses[c].registrations, p.id) <= 1

\* C7 witness: a course holds the registrations of both students, one of
\* them having enrolled again after an unenroll put the other first, and a
\* repeated enroll has just been refused.
C7_Witness ==
  /\ resp = Response("enroll", 400, NoData)
  /\ \E c \in DOMAIN courses :
       /\ Len(courses[c].registrations) = 2
       /\ courses[c].registrations[1].user = "s2"
       /\ courses[c].registrations[2].user = "s1"

\* C8: the insert of an interleaved enroll is not conditional on the
\* stored registrations: an enroll whose scan found no registration of the
\* user adds one on completion and answers 200, whatever has been stored
\* since its read; so a course can come to hold two registrations of one
\* user (the witness).
C8_InsertNotConditional ==
  [][ \A i \in Slots :
        ( /\ inflight[i].pc = "enroll"
          /\ inflight'[i] = Idle
          /\ RegistrationsOf(inflight[i].course.registrations,
                             inflight[i].id) = 0 )
          => /\ resp'.code = 200
             /\ RegistrationsOf(courses'[inflight[i].courseId].registrations,
                                inflight[i].id)
                = RegistrationsOf(courses[inflight[i].courseId].registrations,
                                  inflight[i].id) + 1 ]_vars

\* C8 witness: two registrations of the same user in one course.
C8_Witness ==
  \E c \in DOMAIN courses, p \in Students :
    RegistrationsOf(courses[c].registrations, p.id) = 2

\* C9: in every reachable state, an enroll by a REGULAR principal on a
\* course that holds a registration of that principal is answered 400 and
\* leaves the collection as it was.
C9_AlreadyEnrolled ==
  \A p \in Students, c \in DOMAIN courses :
    RegistrationsOf(courses[c].registrations, p.id) >= 1
      => /\ postEnroll(courses, p, c).code = 400
         /\ postEnroll(courses, p, c).courses = courses

\* C9 witness: an enroll has been refused with 400 on a course holding
\* the registrations of both students.
C9_Witness ==
  /\ resp.op = "enroll"
  /\ resp.code = 400
  /\ \E c \in DOMAIN courses :
       /\ RegistrationsOf(courses[c].registrations, "s1") = 1
       /\ RegistrationsOf(courses[c].registrations, "s2") = 1

\* C10: in every reachable state, an enroll by a REGULAR principal on a
\* stored course without a registration of that principal is answered 200
\* with the updated course, and appends exactly one registration (user =
\* principal, state REQUESTED, requestedAt set) after the registrations
\* already there, changing nothing else.
C10_EnrollAppends ==
  \A p \in Students, c \in DOMAIN courses :
    RegistrationsOf(courses[c].registrations, p.id) = 0
      => LET r == postEnroll(courses, p, c)
             added == [user |-> p.id, state |-> REQUESTED,
                       requestedAt |-> Now]
         IN /\ r.code = 200
            /\ r.courses = [courses EXCEPT ![c].registrations =
                              Append(@, added)]
            /\ Len(r.courses[c].registrations)
                 = Len(courses[c].registrations) + 1
            /\ r.data = r.courses[c]

\* C10 witness: an enroll has been answered 200 with a course that held a
\* registration of another user before.
C10_Witness ==
  /\ resp.op = "enroll"
  /\ resp.code = 200
  /\ Len(resp.data.registrations) = 2
  /\ \E c \in DOMAIN courses : courses[c] = resp.data

\* the registrations of a list that belong to other users, in order
OthersOf(registrations, id) ==
  SelectSeq(registrations, LAMBDA r : r.user # id)

\* C11: in every reachable state, an unenroll on a stored course by a
\* principal without a registration there is answered 400 and leaves the
\* collection unchanged; by a principal with a registration it is answered
\* 200, removes one registration of that principal (the list is one
\* shorter), keeps every other user's registrations in the same order and
\* changes nothing else.
C11_UnenrollRemoves ==
  \A p \in Principals, c \in DOMAIN courses :
    LET regs == courses[c].registrations
        r == postUnenroll(courses, p, c)
        left == r.courses[c].registrations
    IN IF RegistrationsOf(regs, p.id) = 0
       THEN r.code = 400 /\ r.courses = courses
       ELSE /\ r.code = 200
            /\ Len(left) = Len(regs) - 1
            /\ RegistrationsOf(left, p.id) = RegistrationsOf(regs, p.id) - 1
            /\ OthersOf(left, p.id) = OthersOf(regs, p.id)
            /\ r.courses = [courses EXCEPT ![c].registrations = left]

\* C11 witness: an unenroll has been answered 200 with the stored course,
\* which still holds the registration of the other student.
C11_Witness ==
  /\ resp.op = "unenroll"
  /\ resp.code = 200
  /\ Len(resp.data.registrations) = 1
  /\ \E c \in DOMAIN courses : courses[c] = resp.data

\* C12: in every reachable state, for a REGULAR user without a
\* registration on a stored course, the sequence enroll, enroll, unenroll,
\* unenroll is answered 200, 400, 200, 400; the collection after the first
\* unenroll equals the collection before the first enroll, and the second
\* unenroll changes nothing.
C12_EnrollUnenrollRoundTrip ==
  \A p \in Students, c \in DOMAIN courses :
    RegistrationsOf(courses[c].registrations, p.id) = 0
      => LET e1 == postEnroll(courses, p, c)
             e2 == postEnroll(e1.courses, p, c)
             u1 == postUnenroll(e2.courses, p, c)
             u2 == postUnenroll(u1.courses, p, c)
         IN /\ <<e1.code, e2.code, u1.code, u2.code>> = <<200, 400, 200, 400>>
            /\ u1.courses = courses
            /\ u2.courses = u1.courses

\* C12 witness: an unenroll has been answered 400 for want of a
\* registration, on a collection where s1 has none and s2 has one.
C12_Witness ==
  /\ resp.op = "unenroll"
  /\ resp.code = 400
  /\ \E c \in DOMAIN courses :
       /\ RegistrationsOf(courses[c].registrations, "s1") = 0
       /\ RegistrationsOf(courses[c].registrations, "s2") = 1

\* C13: in every reachable state a create request by a principal that is
\* not SUPERADMIN is answered 403 and leaves the collection unchanged; and
\* the collection grows only by one document, in a step answered 200 to a
\* create request, with a SUPERADMIN as createdBy.
C13_OnlySuperadminCreates ==
  /\ [](\A p \in Principals \ Admins, body \in CreateBodies :
          /\ postCourse(courses, p, body).code = 403
          /\ postCourse(courses, p, body).courses = courses)
  /\ [][Len(courses') # Len(courses)
         => /\ resp'.op = "create"
            /\ resp'.code = 200
            /\ SubSeq(courses', 1, Len(courses)) = courses
            /\ Len(courses') = Len(courses) + 1
            /\ courses'[Len(courses')].createdBy
                 \in {a.id : a \in Admins}]_vars

\* C13 witness: a create request has been answered 403 while a course is
\* stored.
C13_Witness ==
  /\ resp.op = "create"
  /\ resp.code = 403
  /\ Len(courses) >= 1

\* C14: in every reachable state, a create request by a SUPERADMIN p that
\* is answered 200 appends one document with status DRAFT, createdBy p,
\* managers exactly [{managerId: p, role: COORDINATOR}] and no
\* registrations, and returns it.
C14_CreatedCourse ==
  \A p \in Admins, body \in CreateBodies :
    LET r == postCourse(courses, p, body)
    IN r.code = 200
         => /\ Len(r.courses) = Len(courses) + 1
            /\ SubSeq(r.courses, 1, Len(courses)) = courses
            /\ r.data = r.courses[Len(r.courses)]
            /\ r.data.status = DRAFT
            /\ r.data.createdBy = p.id
            /\ r.data.managers
                 = << [managerId |-> p.id, role |-> COORDINATOR] >>
            /\ r.data.registrations = << >>

\* C14 witness: a create request has been answered 200 with the document
\* now stored last.
C14_Witness ==
  /\ resp.op = "create"
  /\ resp.code = 200
  /\ Len(courses) >= 1
  /\ courses[Len(courses)] = resp.data
  /\ resp.data.createdBy = "a1"

\* the tag values of the payloads that are missing, not a list, or hold an
\* element that is not a string
InvalidTags ==
  {t \in TagValues :
     \/ t.kind # "array"
     \/ \E i \in 1..Len(t.items) : t.items[i].type # "string"}

\* C15: in every reachable state, a create request by a SUPERADMIN whose
\* tags are missing, not a list, or contain a non-string is answered 400
\* and stores no course; with a list of strings it is not answered 400.
C15_TagsValidated ==
  \A p \in Admins, body \in CreateBodies :
    LET r == postCourse(courses, p, body)
    IN IF body.tags \in InvalidTags
       THEN r.code = 400 /\ r.courses = courses
       ELSE r.code # 400

\* C15 witness: a create request has been answered 400.
C15_Witness ==
  /\ resp.op = "create"
  /\ resp.code = 400
  /\ resp.data = NoData

\* C16: in every reachable state, an update request by a principal that is
\* not SUPERADMIN is answered 403 and leaves the collection unchanged,
\* whatever the course id and payload, also when the principal is listed
\* as COORDINATOR among the managers of the course.
C16_UpdateSuperadminOnly ==
  \A p \in Principals \ Admins, c \in CourseIds, body \in UpdateBodies :
    /\ Put(p, c, body).code = 403
    /\ Put(p, c, body).courses = courses

\* C16 witness: an update request has been answered 403 while the MANAGER
\* m1 is listed as COORDINATOR of a stored course.
C16_Witness ==
  /\ resp.op = "update"
  /\ resp.code = 403
  /\ \E c \in DOMAIN courses :
       includes(courses[c].managers,
                [managerId |-> "m1", role |-> COORDINATOR])

\* C17: in every reachable state, an enroll request by a principal that is
\* not REGULAR is answered 403 and inserts nothing, whatever the course
\* id; and every stored registration belongs to a REGULAR principal.
C17_EnrollRegularOnly ==
  /\ \A p \in Principals \ Students, c \in CourseIds :
       /\ postEnroll(courses, p, c).code = 403
       /\ postEnroll(courses, p, c).courses = courses
  /\ \A c \in DOMAIN courses :
       \A i \in 1..Len(courses[c].registrations) :
         courses[c].registrations[i].user \in {q.id : q \in Students}

\* C17 witness: an enroll request has been answered 403 while a
\* registration is stored.
C17_Witness ==
  /\ resp.op = "enroll"
  /\ resp.code = 403
  /\ \E c \in DOMAIN courses : Len(courses[c].registrations) >= 1

\* canMutateCourse(p, c) of the specification: SUPERADMIN, or listed among
\* the managers of the course with role COORDINATOR
canMutateCourse(p, course) ==
  \/ p.role = SUPERADMIN
  \/ includes(course.managers, [managerId |-> p.id, role |-> COORDINATOR])

\* C18: in every reachable state, a material create, update or delete on a
\* stored course by a principal that is neither SUPERADMIN nor a
\* COORDINATOR manager of that course is answered 403 and leaves the
\* collection unchanged.
C18_MaterialGated ==
  \A p \in MaterialPrincipals, c \in DOMAIN courses :
    ~canMutateCourse(p, courses[c])
      => /\ \A body \in MaterialBodies :
              /\ postMaterial(courses, p, c, body).code = 403
              /\ postMaterial(courses, p, c, body).courses = courses
         /\ \A m \in MaterialIds, body \in MaterialBodies :
              /\ putMaterial(courses, p, c, m, body).code = 403
              /\ putMaterial(courses, p, c, m, body).courses = courses
         /\ \A m \in MaterialIds :
              /\ deleteMaterial(courses, p, c, m).code = 403
              /\ deleteMaterial(courses, p, c, m).courses = courses

\* C19: in every reachable state an image upload to an ARCHIVED course is
\* answered 409 and leaves its pic unchanged, and no step changes the pic
\* of a course that is ARCHIVED.
C19_ArchivedImageFrozen ==
  /\ [](\A p \in Principals, c \in DOMAIN courses, file \in FileParts :
          courses[c].status = ARCHIVED
            => LET r == postUploadImage(courses, files, p, c, file)
               IN r.code = 409 /\ r.courses[c].pic = courses[c].pic)
  /\ [][\A c \in DOMAIN courses :
          courses[c].status = ARCHIVED => courses'[c].pic = courses[c].pic]_vars

\* the headers that carry no valid Bearer credential: missing, not a
\* Bearer credential, or a token that is forged or expired
RejectedHeaders ==
  {h \in AuthHeaders :
     \/ ~h.present
     \/ ~h.startsWithBearer
     \/ h.slice7.kind # "signed"
     \/ h.slice7.expired}

\* C20: in every reachable state, a request whose Authorization header is
\* missing, not a Bearer credential, or carries a forged or expired token
\* is answered 401 and changes nothing in the collection, whichever course
\* route it addresses.
C20_UnauthenticatedStops ==
  \A h \in RejectedHeaders, c \in CourseIds :
    /\ \A body \in CreateBodies :
         /\ routePostCourse(courses, h, body).code = 401
         /\ routePostCourse(courses, h, body).courses = courses
    /\ \A body \in StatusBodies :
         /\ routePutCourse(courses, omitUndefined, h, c, body).code = 401
         /\ routePutCourse(courses, omitUndefined, h, c, body).courses = courses
    /\ routePostEnroll(courses, h, c).code = 401
    /\ routePostEnroll(courses, h, c).courses = courses
    /\ routePostUnenroll(courses, h, c).code = 401
    /\ routePostUnenroll(courses, h, c).courses = courses

\* the _id of the documents of a list response, as a set
IdsOf(data) == {data.items[i]._id : i \in 1..Len(data.items)}

\* C21: for every collection, GET /course/all answers a SUPERADMIN 200
\* with every stored course in full, a REGULAR principal 200 with exactly
\* the stored courses whose status is PUBLISHED, each once, and any other
\* role 403.
C21_ListByRole ==
  \A p \in Principals :
    LET r == getAll(courses, p)
    IN CASE p.role = SUPERADMIN ->
              /\ r.code = 200
              /\ Len(r.data.items) = Len(courses)
              /\ \A c \in DOMAIN courses :
                   /\ r.data.items[c]._id = c
                   /\ \A f \in DOMAIN courses[c] :
                        r.data.items[c][f] = courses[c][f]
         [] p.role = REGULAR ->
              /\ r.code = 200
              /\ IdsOf(r.data)
                   = {c \in DOMAIN courses : courses[c].status = PUBLISHED}
              /\ Len(r.data.items) = Cardinality(IdsOf(r.data))
         [] OTHER -> r.code = 403 /\ r.data = NoData

\* C21 witness: a list request has been answered 200 with one course in
\* the form a REGULAR principal gets, while a course is stored.
C21_Witness ==
  /\ resp.op = "getAll"
  /\ resp.code = 200
  /\ Len(resp.data.items) = 1
  /\ "status" \notin DOMAIN resp.data.items[1]
  /\ courses[resp.data.items[1]._id].status = PUBLISHED

\* the users of the registrations of a list that are in the given state
UsersInState(registrations, state) ==
  LET kept == SelectSeq(registrations, LAMBDA r : r.state = state)
  IN [i \in 1..Len(kept) |-> kept[i].user]

C24_FirstFailingPrecondition ==
  \A c \in CourseIds \ DOMAIN courses, p \in Principals :
    /\ postEnroll(courses, p, c).code = IF p.role = REGULAR THEN 404 ELSE 403
    /\ postEnroll(courses, p, c).courses = courses
    /\ \A body \in UpdateBodies :
         /\ Put(p, c, body).code = IF p.role = SUPERADMIN THEN 404 ELSE 403
         /\ Put(p, c, body).courses = courses

\* C24 witness: an update on an id that is not stored has been answered
\* 404 while a course is stored.
C24_Witness ==
  /\ resp.op = "update"
  /\ resp.code = 404
  /\ Len(courses) >= 1

\* C25: in every reachable state, material create, update and delete,
\* enroll, unenroll, update and course detail on a course id that is not
\* stored are answered 404, and material update and delete with a material
\* id the course does not hold are answered 404 and leave the collection
\* unchanged.
C25_AbsentIsNotFound ==
  /\ \A c \in CourseIds \ DOMAIN courses, p \in MaterialPrincipals :
       /\ \A body \in MaterialBodies :
            postMaterial(courses, p, c, body).code = 404
       /\ \A m \in MaterialIds, body \in MaterialBodies :
            putMaterial(courses, p, c, m, body).code = 404
       /\ \A m \in MaterialIds : deleteMaterial(courses, p, c, m).code = 404
       /\ getCourse(courses, p, c).code = 404
       /\ postUnenroll(courses, p, c).code = 404
       /\ p.role = REGULAR => postEnroll(courses, p, c).code = 404
       /\ p.role = SUPERADMIN
            => \A body \in UpdateBodies : Put(p, c, body).code = 404
  /\ \A c \in DOMAIN courses, p \in MaterialPrincipals,
        m \in MaterialIds \ UsedMaterialIds(courses) :
       /\ \A body \in MaterialBodies :
            /\ putMaterial(courses, p, c, m, body).code = 404
            /\ putMaterial(courses, p, c, m, body).courses = courses
       /\ deleteMaterial(courses, p, c, m).code = 404
       /\ deleteMaterial(courses, p, c, m).courses = courses

\* C26: in every reachable state, a create or update request by a
\* SUPERADMIN whose payload the validator reports as invalid is answered
\* 400 and leaves the collection unchanged.
C26_InvalidPayloadBlocked ==
  \A p \in Admins :
    /\ \A body \in CreateBodies :
         createCourseValidatorError(CreateBodyKeys(body))
           => /\ postCourse(courses, p, body).code = 400
              /\ postCourse(courses, p, body).courses = courses
    /\ \A c \in DOMAIN courses, body \in UpdateBodies :
         createCourseValidatorError(UpdateBodyKeys(body))
           => /\ Put(p, c, body).code = 400
              /\ Put(p, c, body).courses = courses

\* C27: every stored registration has state REQUESTED, and the
\* registrations of a course change only by an enroll appending one
\* REQUESTED entry or by an unenroll removing one entry.
C27_RegistrationsStayRequested ==
  /\ [](\A c \in DOMAIN courses :
          \A i \in 1..Len(courses[c].registrations) :
            courses[c].registrations[i].state = REQUESTED)
  /\ [][\A c \in DOMAIN courses :
          courses'[c].registrations # courses[c].registrations
            => \/ /\ resp'.op = "enroll"
                  /\ \E q \in Principals :
                       courses'[c].registrations
                         = Append(courses[c].registrations,
                                  [user |-> q.id, state |-> REQUESTED,
                                   requestedAt |-> Now])
               \/ /\ resp'.op = "unenroll"
                  /\ \E i \in 1..Len(courses[c].registrations) :
                       courses'[c].registrations
                         = SubSeq(courses[c].registrations, 1, i - 1)
                             \o SubSeq(courses[c].registrations, i + 1,
                                       Len(courses[c].registrations))]_vars

\* C27 witness: an update has been answered 200 on a course that holds the
\* REQUESTED registrations of both students.
C27_Witness ==
  /\ resp.op = "update"
  /\ resp.code = 200
  /\ \E c \in DOMAIN courses :
       /\ courses[c] = resp.data
       /\ Len(courses[c].registrations) = 2
       /\ courses[c].registrations[2].state = REQUESTED

\* C28: no step removes a stored course or changes the createdBy of one,
\* and the collection grows only in a create step.
C28_CoursesKeptAndOwned ==
  [][/\ Len(courses') >= Len(courses)
     /\ \A c \in DOMAIN courses :
          courses'[c].createdBy = courses[c].createdBy
     /\ Len(courses') > Len(courses) => resp'.op = "create"]_vars

\* C28 witness: an update has been answered 200 and left the course,
\* now ARCHIVED, with the creator it had.
C28_Witness ==
  /\ resp.op = "update"
  /\ resp.code = 200
  /\ resp.data.status = ARCHIVED
  /\ resp.data.createdBy = "a1"
  /\ \E c \in DOMAIN courses : courses[c] = resp.data

\* the names of the files the stored courses refer to
ReferencedFiles(stored) ==
  {stored[c].pic.filename :
     c \in {d \in DOMAIN stored : stored[d].pic.kind = "url"}}

\* C29: every image reference of a stored course names a file in the
\* upload directory; an upload whose file write fails changes neither the
\* collection nor the directory; and an upload of a valid image that the
\* handler rejects (not SUPERADMIN) or that names no stored course leaves
\* the written file in the directory with no course referring to it.
C29_ImageReferenceWritten ==
  /\ ReferencedFiles(courses) \subseteq files
  /\ Cardinality(files) < MaxFiles
       => \A p \in Principals, c \in CourseIds, file \in FileParts :
            LET r == postUploadImage(courses, files, p, c, file)
            IN /\ multerFails(file)
                    => r.courses = courses /\ r.files = files
               /\ ReferencedFiles(r.courses) \subseteq r.files
               /\ (/\ ~multerFails(file)
                   /\ checkImage(file).next
                   /\ (p.role # SUPERADMIN \/ c \notin DOMAIN courses))
                    => /\ r.courses = courses
                       /\ Cardinality(r.files) = Cardinality(files) + 1
                       /\ files \subseteq r.files
                       /\ (r.files \ files)
                            \cap ReferencedFiles(r.courses) = {}

\* C29 witness: after an upload the directory holds a file a course
\* refers to and a file no course refers to.
C29_Witness ==
  /\ resp.op = "uploadImage"
  /\ ReferencedFiles(courses) # {}
  /\ files \ ReferencedFiles(courses) # {}

\* C30: in every reachable state, an upload of a valid image by a
\* SUPERADMIN for a course id that is not stored is answered 404 without
\* an image URL.
C30_UploadToAbsentCourse ==
  Cardinality(files) < MaxFiles
    => \A p \in Admins, c \in CourseIds \ DOMAIN courses,
          file \in FileParts :
         (~multerFails(file) /\ checkImage(file).next)
           => /\ postUploadImage(courses, files, p, c, file).code = 404
              /\ postUploadImage(courses, files, p, c, file).data = NoData

\* C31: in every reachable state, an upload whose written file checkImage
\* does not let through is answered 400, leaves the directory as it was
\* before the request (the file is deleted) and changes no course.
C31_RejectedImageDeleted ==
  Cardinality(files) < MaxFiles
    => \A p \in Principals, c \in CourseIds, file \in FileParts :
         (file.present /\ ~multerFails(file) /\ ~checkImage(file).next)
           => LET r == postUploadImage(courses, files, p, c, file)
              IN r.code = 400 /\ r.files = files /\ r.courses = courses

\* the stored courses that hold a registration in state REQUESTED
PendingCourses ==
  {c \in DOMAIN courses :
     \E i \in 1..Len(courses[c].registrations) :
       courses[c].registrations[i].state = REQUESTED}

\* C32: for every collection, GET /course/admin/pending answers 403 to a
\* principal that is not SUPERADMIN; to a SUPERADMIN it answers 204 when
\* no course holds a REQUESTED registration and otherwise 200 with exactly
\* the courses that hold one, each once.
C32_PendingRequests ==
  \A p \in Principals :
    LET r == getPending(courses, p)
    IN IF p.role # SUPERADMIN THEN r.code = 403 /\ r.data = NoData
       ELSE IF PendingCourses = {} THEN r.code = 204 /\ r.data = NoData
       ELSE /\ r.code = 200
            /\ IdsOf(r.data) = PendingCourses
            /\ Len(r.data.items) = Cardinality(PendingCourses)

\* C32 witness: a pending request has been answered 204 although a course
\* holds a registration, which is ACCEPTED.
C32_Witness ==
  /\ resp.op = "getPending"
  /\ resp.code = 204
  /\ \E c \in DOMAIN courses :
       /\ Len(courses[c].registrations) >= 1
       /\ courses[c].registrations[1].state = ACCEPTED

\* the stored registrations, course by course
AllRegistrations(stored) == [c \in DOMAIN stored |-> stored[c].registrations]

\* C37: in every reachable state, an enroll or unenroll results in the
\* collection it found except possibly for the registrations of the
\* course it names, and an update or a material create, update or delete
\* results in a collection with the registrations it found.
C37_SeparateFields ==
  \A p \in Principals, c \in CourseIds :
    /\ \A r \in {postEnroll(courses, p, c), postUnenroll(courses, p, c)} :
         /\ DOMAIN r.courses = DOMAIN courses
         /\ \A d \in DOMAIN courses :
              /\ d # c => r.courses[d] = courses[d]
              /\ r.courses[d]
                   = [courses[d] EXCEPT
                        !.registrations = r.courses[d].registrations]
    /\ \A body \in UpdateBodies :
         AllRegistrations(Put(p, c, body).courses) = AllRegistrations(courses)
    /\ \A body \in MaterialBodies :
         /\ Cardinality(UsedMaterialIds(courses)) < MaxMaterials
              => AllRegistrations(postMaterial(courses, p, c, body).courses)
                   = AllRegistrations(courses)
         /\ \A m \in MaterialIds :
              AllRegistrations(putMaterial(courses, p, c, m, body).courses)
                = AllRegistrations(courses)
    /\ \A m \in MaterialIds :
         AllRegistrations(deleteMaterial(courses, p, c, m).courses)
           = AllRegistrations(courses)

\* C37 witness: an enroll has been answered 200 on a course that holds
\* material, and the stored course still holds it.
C37_Witness ==
  /\ resp.op = "enroll"
  /\ resp.code = 200
  /\ \E c \in DOMAIN courses :
       /\ Len(courses[c].material.items) >= 1
       /\ Len(courses[c].registrations) >= 1
       /\ resp.data.material = courses[c].material

\* C38: for every collection, an enroll by a REGULAR principal on a
\* stored course without a registration of that principal is answered 200
\* and appends the registration, whatever the status of the course and
\* whether or not the list the principal gets shows the course.
C38_EnrollAnyStatus ==
  \A p \in Students, c \in DOMAIN courses :
    RegistrationsOf(courses[c].registrations, p.id) = 0
      => /\ postEnroll(courses, p, c).code = 200
         /\ postEnroll(courses, p, c).courses[c].registrations
              = Append(courses[c].registrations, newRegistration(p.id))

\* C38 witness: an enroll has been answered 200 on a FINISHED course,
\* which the list of a REGULAR principal does not show.
C38_Witness ==
  /\ resp.op = "enroll"
  /\ resp.code = 200
  /\ resp.data.status = FINISHED
  /\ \E c \in DOMAIN courses :
       /\ courses[c] = resp.data
       /\ \A p \in Students : c \notin IdsOf(getAll(courses, p).data)

\* C39: in every reachable state, an upload of a valid image by a
\* principal that is not SUPERADMIN is answered 403, changes no course and
\* leaves the directory as it was before the request.
C39_ForbiddenUploadLeavesNoFile ==
  Cardinality(files) < MaxFiles
    => \A p \in Principals \ Admins, c \in CourseIds, file \in FileParts :
         (~multerFails(file) /\ checkImage(file).next)
           => LET r == postUploadImage(courses, files, p, c, file)
              IN r.code = 403 /\ r.courses = courses /\ r.files = files

\* the material entries of a stored course
MaterialOf(stored, c) == stored[c].material.items

\* C40: in every reachable state the stored material ids are distinct, and
\* on a stored course a delete of a stored id removes the entry with that
\* id and keeps the others in order, an update of a stored id rewrites
\* url, description and addedBy (the caller) of the entry with that id and
\* no other, and a create appends one entry with a fresh id and addedBy
\* the caller; nothing else in the collection changes.
C40_MaterialById ==
  /\ \A c \in DOMAIN courses :
       Cardinality({MaterialOf(courses, c)[i]._id :
                      i \in 1..Len(MaterialOf(courses, c))})
         = Len(MaterialOf(courses, c))
  /\ \A p \in MaterialPrincipals, c \in DOMAIN courses :
       LET items == MaterialOf(courses, c)
           ids == {items[i]._id : i \in 1..Len(items)}
       IN /\ \A m \in ids :
               LET r == deleteMaterial(courses, p, c, m)
               IN /\ r.code = 200
                  /\ r.courses
                       = [courses EXCEPT ![c].material.items =
                            SelectSeq(items, LAMBDA e : e._id # m)]
          /\ \A m \in ids, body \in MaterialBodies :
               LET r == putMaterial(courses, p, c, m, body)
               IN /\ r.code = 200
                  /\ r.courses
                       = [courses EXCEPT ![c].material.items =
                            [i \in 1..Len(items) |->
                               IF items[i]._id = m
                               THEN [_id |-> m, url |-> body.url,
                                     addedBy |-> p.id,
                                     description |-> body.description]
                               ELSE items[i]]]
          /\ Cardinality(UsedMaterialIds(courses)) < MaxMaterials
               => \A body \in MaterialBodies :
                    LET r == postMaterial(courses, p, c, body)
                        new == MaterialOf(r.courses, c)
                    IN /\ r.code = 201
                       /\ SubSeq(new, 1, Len(items)) = items
                       /\ Len(new) = Len(items) + 1
                       /\ new[Len(new)].addedBy = p.id
                       /\ new[Len(new)].url = body.url
                       /\ new[Len(new)]._id \notin UsedMaterialIds(courses)
                       /\ r.courses
                            = [courses EXCEPT ![c].material.items = new]

\* C40 witness: a material delete has been answered 200 and the course
\* still holds another entry, whose id is 1 or greater than its position.
C40_Witness ==
  /\ resp.op = "deleteMaterial"
  /\ resp.code = 200
  /\ \E c \in DOMAIN courses :
       /\ Len(MaterialOf(courses, c)) = 1
       /\ MaterialOf(courses, c)[1]._id = 2

\* C33: in every reachable state, a request to a course route with any
\* Authorization header makes checkJwt and the handler call res.json
\* exactly once in total, and an upload-image request reaching the handler
\* makes it call res.json exactly once.
C33_ExactlyOneResponse ==
  /\ \A h \in AuthHeaders : routeSends(h) = 1
  /\ \A p \in Principals, c \in CourseIds :
       uploadImageHandlerSends(courses, p, c) = 1

\* C34: in every step that completes an interleaved enroll or unenroll
\* whose caller's own registrations are stored as the request read them
\* (none for an enroll, one for an unenroll), the request is answered 200,
\* the caller's registration is stored after an enroll and gone after an
\* unenroll, and the registrations of every other user are stored as they
\* were before the step.
C34_NoLostUpdate ==
  [][\A i \in Slots :
       (/\ inflight[i].pc \in {"enroll", "unenroll"}
        /\ inflight'[i] = Idle
        /\ RegistrationsOf(courses[inflight[i].courseId].registrations,
                           inflight[i].id)
             = RegistrationsOf(inflight[i].course.registrations,
                               inflight[i].id)
        /\ RegistrationsOf(inflight[i].course.registrations, inflight[i].id)
             = (IF inflight[i].pc = "enroll" THEN 0 ELSE 1))
         => /\ resp'.code = 200
            /\ RegistrationsOf(courses'[inflight[i].courseId].registrations,
                               inflight[i].id)
                 = (IF inflight[i].pc = "enroll" THEN 1 ELSE 0)
            /\ \A p \in Principals :
                 p.id # inflight[i].id
                   => RegistrationsOf(
                        courses'[inflight[i].courseId].registrations, p.id)
                      = RegistrationsOf(
                          courses[inflight[i].courseId].registrations, p.id)
    ]_vars

\* C35: in every reachable state, a PUT /user/details with any body by
\* any principal leaves the role and the status of every stored user as
\* they were.
C35_RoleNeverModified ==
  \A p \in Principals, body \in DetailBodies :
    \A u \in DOMAIN users :
      /\ putDetails(users, p, body).users[u].role = users[u].role
      /\ putDetails(users, p, body).users[u].status = users[u].status

\* C36: in every reachable state, a details, awards or update-experience
\* request by any principal leaves the record of every other user as it
\* was.
C36_OnlyOwnRecord ==
  \A p \in Principals :
    \A u \in DOMAIN users \ {p.id} :
      /\ \A body \in DetailBodies :
           putDetails(users, p, body).users[u] = users[u]
      /\ \A id \in AwardIds, body \in AwardBodies :
           putAwards(users, p, id, body).users[u] = users[u]
      /\ \A id \in UserIds, body \in ExperienceBodies :
           putUpdateExperience(users, p, id, body).users[u] = users[u]

====
